---- MODULE Spec2Model ----
(***************************************************************************)
(* Model of the trading framework: the strategies (signal generation), the *)
(* live trader (LiveTrader) and the backtest adapter.                      *)
(*                                                                         *)
(* A strategy instance is the record `strategy` (its class, its params and *)
(* its stored previous indicator values).  The indicator library           *)
(* (pandas_ta) and pandas are external: a window handed to on_data is      *)
(* described by its length and by what the library returns for it (no      *)
(* result, an empty series, or a series whose last entry is NaN or a       *)
(* number).  Every on_data is translated branch by branch.                 *)
(***************************************************************************)
EXTENDS Integers, Sequences, FiniteSets, TLC

VARIABLES strategy, call, fresh

\* The action returned by the instance's most recent evaluation that passed
\* the length and availability checks ("none" before the first one)
VARIABLE fired

\* LiveTrader: where run() stands, self.running, the position held at the
\* broker (now, and when the trader was constructed), and what the current
\* cycle did so far; the configuration the entry point loaded
VARIABLES pc, running, position, start_position, cycle, config

liveVars == <<pc, running, position, start_position, cycle, config>>

\* The backtest adapter (BacktraderStrategyWrapper): self.order, the orders
\* the engine's broker has not finished, and the bars the feed has delivered
VARIABLES order, broker_orders, bars

btVars == <<order, broker_orders, bars>>

vars == <<strategy, call, fresh, fired, liveVars, btVars>>

----------------------------------------------------------------------------
(* Python values *)

\* Optional value: None, or a stored value
None == <<>>
Some(x) == <<x>>

\* float: NaN or a number; every ordered comparison with NaN is False
NaN == [nan |-> TRUE, v |-> 0]
F(x) == [nan |-> FALSE, v |-> x]
isna(x) == x.nan
Lt(a, b) == ~a.nan /\ ~b.nan /\ a.v < b.v
Le(a, b) == ~a.nan /\ ~b.nan /\ a.v <= b.v
Gt(a, b) == ~a.nan /\ ~b.nan /\ a.v > b.v
Ge(a, b) == ~a.nan /\ ~b.nan /\ a.v >= b.v

\* What an indicator call returns: None, an empty Series, or a Series whose
\* last entry (iloc[-1]) is `last`
NoResult == [res |-> "None", last |-> NaN]
EmptySeries == [res |-> "empty", last |-> NaN]
Series(x) == [res |-> "series", last |-> x]
Results(vals) == {NoResult, EmptySeries, Series(NaN)} \cup {Series(F(x)) : x \in vals}

Signal(action, quantity, reason) ==
    [action |-> action, quantity |-> quantity, reason |-> reason]

\* What a call hands back: the returned signal and the instance afterwards
Return(signal, self) == [raised |-> FALSE, signal |-> signal, self |-> self]

----------------------------------------------------------------------------
(* Bounds of the model *)

\* window lengths tried on each side of a strategy's minimum
LenSlack == 1

WindowLens(min) ==
    {0} \cup {n \in (min - LenSlack)..(min + LenSlack) : n >= 0}

PositionSizes == {5, 10}

----------------------------------------------------------------------------
(* RSIStrategy *)

RSIValues == {25, 30, 40, 60, 70, 75}

RSIParams ==
    [rsi_period : {2, 14}, oversold : {30, 70}, overbought : {30, 70},
     position_size : PositionSizes]

\* mutant: the previous RSI starts at the neutral 50 instead of None
RSIStrategy_init_Neutral(params) ==
    [cls |-> "RSIStrategy", params |-> params, last_rsi |-> Some(F(50))]

RSIStrategy_init(params) ==
    [cls |-> "RSIStrategy", params |-> params, last_rsi |-> None]

RSIData(params) ==
    [len : WindowLens(params.rsi_period + 1), rsi : Results(RSIValues)]

\* mutant: the + 1 of the length check dropped
RSIMinLen_NoPlusOne(params) == params.rsi_period

RSIMinLen(params) == params.rsi_period + 1

RSIUnavailable(rsi) == rsi.res = "None" \/ rsi.res = "empty" \/ isna(rsi.last)

\* mutant: strict comparison on the previous side of the buy rule
RSIAction_StrictPrev(last_rsi, current_rsi, params) ==
    IF Lt(current_rsi, F(params.oversold))
    THEN IF last_rsi # None /\ Gt(last_rsi[1], F(params.oversold))
         THEN "buy" ELSE "hold"
    ELSE IF Gt(current_rsi, F(params.overbought))
    THEN IF last_rsi # None /\ Le(last_rsi[1], F(params.overbought))
         THEN "sell" ELSE "hold"
    ELSE "hold"

\* mutant: the current value is compared with <= and >=
RSIAction_NotStrictCur(last_rsi, current_rsi, params) ==
    IF Le(current_rsi, F(params.oversold))
    THEN IF last_rsi # None /\ Ge(last_rsi[1], F(params.oversold))
         THEN "buy" ELSE "hold"
    ELSE IF Ge(current_rsi, F(params.overbought))
    THEN IF last_rsi # None /\ Le(last_rsi[1], F(params.overbought))
         THEN "sell" ELSE "hold"
    ELSE "hold"

\* mutant: the previous value is not looked at
RSIAction_LevelOnly(last_rsi, current_rsi, params) ==
    IF Lt(current_rsi, F(params.oversold))
    THEN IF last_rsi # None THEN "buy" ELSE "hold"
    ELSE IF Gt(current_rsi, F(params.overbought))
    THEN IF last_rsi # None THEN "sell" ELSE "hold"
    ELSE "hold"

RSIAction(last_rsi, current_rsi, params) ==
    IF Lt(current_rsi, F(params.oversold))
    THEN IF last_rsi # None /\ Ge(last_rsi[1], F(params.oversold))
         THEN "buy" ELSE "hold"
    ELSE IF Gt(current_rsi, F(params.overbought))
    THEN IF last_rsi # None /\ Le(last_rsi[1], F(params.overbought))
         THEN "sell" ELSE "hold"
    ELSE "hold"

\* mutant: the quantity set before the action is decided
RSIQuantity_Always(action, params) == params.position_size

RSIQuantity(action, params) ==
    IF action = "hold" THEN 0 ELSE params.position_size

RSIReason(action, current_rsi, params) ==
    CASE action = "buy" -> <<"RSI oversold crossover", current_rsi.v, params.oversold>>
      [] action = "sell" -> <<"RSI overbought crossover", current_rsi.v, params.overbought>>
      [] OTHER -> <<"RSI, Price", current_rsi.v>>

\* mutant: a fired signal is returned before the previous RSI is stored
RSIStrategy_on_data_ReturnEarly(self, data) ==
    IF data.len < RSIMinLen(self.params)
    THEN Return(Signal("hold", 0, <<"Insufficient data for RSI calculation">>), self)
    ELSE IF data.rsi.res = "None" \/ data.rsi.res = "empty"
    THEN Return(Signal("hold", 0, <<"RSI calculation failed">>), self)
    ELSE IF RSIUnavailable(data.rsi)
    THEN Return(Signal("hold", 0, <<"RSI is NaN">>), self)
    ELSE LET current_rsi == data.rsi.last
             action == RSIAction(self.last_rsi, current_rsi, self.params)
         IN  Return(Signal(action, RSIQuantity(action, self.params),
                           RSIReason(action, current_rsi, self.params)),
                    IF action = "hold"
                    THEN [self EXCEPT !.last_rsi = Some(current_rsi)]
                    ELSE self)

RSIStrategy_on_data(self, data) ==
    IF data.len < RSIMinLen(self.params)
    THEN Return(Signal("hold", 0, <<"Insufficient data for RSI calculation">>), self)
    ELSE IF data.rsi.res = "None" \/ data.rsi.res = "empty"
    THEN Return(Signal("hold", 0, <<"RSI calculation failed">>), self)
    ELSE IF RSIUnavailable(data.rsi)
    THEN Return(Signal("hold", 0, <<"RSI is NaN">>), self)
    ELSE LET current_rsi == data.rsi.last
             action == RSIAction(self.last_rsi, current_rsi, self.params)
         IN  Return(Signal(action, RSIQuantity(action, self.params),
                           RSIReason(action, current_rsi, self.params)),
                    [self EXCEPT !.last_rsi = Some(current_rsi)])

----------------------------------------------------------------------------
(* MovingAverageCrossover *)

\* moving averages in tenths: 9.5, 10.0, 10.1, 10.2
MAValues == {95, 100, 101, 102}

MAParams ==
    [fast_period : {10}, slow_period : {30}, ma_type : {"SMA"},
     position_size : PositionSizes]

MovingAverageCrossover_init(params) ==
    [cls |-> "MovingAverageCrossover", params |-> params,
     last_fast_ma |-> None, last_slow_ma |-> None]

\* fast_ma, slow_ma: what ta.sma / ta.ema (chosen by ma_type) return
MAData(params) ==
    [len : WindowLens(params.slow_period + 1),
     fast_ma : Results(MAValues), slow_ma : Results(MAValues)]

MAMinLen(params) == params.slow_period + 1

MAFailed(fast_ma, slow_ma) ==
    \/ fast_ma.res = "None" \/ slow_ma.res = "None"
    \/ fast_ma.res = "empty" \/ slow_ma.res = "empty"

\* mutant: only the fast average is tested for NaN
MAIsNaN_FastOnly(current_fast_ma, current_slow_ma) == isna(current_fast_ma)

MAIsNaN(current_fast_ma, current_slow_ma) ==
    isna(current_fast_ma) \/ isna(current_slow_ma)

\* mutant: strict comparison on the previous side of the golden cross
MAAction_StrictPrev(last_fast_ma, last_slow_ma, current_fast_ma, current_slow_ma) ==
    IF last_fast_ma # None /\ last_slow_ma # None
    THEN IF /\ Lt(last_fast_ma[1], last_slow_ma[1])
            /\ Gt(current_fast_ma, current_slow_ma)
         THEN "buy"
         ELSE IF /\ Ge(last_fast_ma[1], last_slow_ma[1])
                 /\ Lt(current_fast_ma, current_slow_ma)
         THEN "sell"
         ELSE "hold"
    ELSE "hold"

MAAction(last_fast_ma, last_slow_ma, current_fast_ma, current_slow_ma) ==
    IF last_fast_ma # None /\ last_slow_ma # None
    THEN IF /\ Le(last_fast_ma[1], last_slow_ma[1])
            /\ Gt(current_fast_ma, current_slow_ma)
         THEN "buy"
         ELSE IF /\ Ge(last_fast_ma[1], last_slow_ma[1])
                 /\ Lt(current_fast_ma, current_slow_ma)
         THEN "sell"
         ELSE "hold"
    ELSE "hold"

MAQuantity(action, params) ==
    IF action = "hold" THEN 0 ELSE params.position_size

MAReason(action, current_fast_ma, current_slow_ma) ==
    CASE action = "buy" -> <<"Golden cross", current_fast_ma.v, current_slow_ma.v>>
      [] action = "sell" -> <<"Death cross", current_fast_ma.v, current_slow_ma.v>>
      [] OTHER -> <<"Fast MA, Slow MA, Price", current_fast_ma.v, current_slow_ma.v>>

MovingAverageCrossover_on_data(self, data) ==
    IF data.len < MAMinLen(self.params)
    THEN Return(Signal("hold", 0, <<"Insufficient data for MA calculation">>), self)
    ELSE IF MAFailed(data.fast_ma, data.slow_ma)
    THEN Return(Signal("hold", 0, <<"MA calculation failed">>), self)
    ELSE IF MAIsNaN(data.fast_ma.last, data.slow_ma.last)
    THEN Return(Signal("hold", 0, <<"MA is NaN">>), self)
    ELSE LET current_fast_ma == data.fast_ma.last
             current_slow_ma == data.slow_ma.last
             action == MAAction(self.last_fast_ma, self.last_slow_ma,
                                current_fast_ma, current_slow_ma)
         IN  Return(Signal(action, MAQuantity(action, self.params),
                           MAReason(action, current_fast_ma, current_slow_ma)),
                    [self EXCEPT !.last_fast_ma = Some(current_fast_ma),
                                 !.last_slow_ma = Some(current_slow_ma)])

----------------------------------------------------------------------------
(* MACDCrossover *)

MACDValues == {-1, 0, 1}

\* What ta.macd returns: None, an empty frame, or a frame; `cols` says
\* whether the frame has the MACD_f_s_g and MACDs_f_s_g columns the strategy
\* looks up, `macd` and `sig` are the last entries of these columns
MacdNone == [res |-> "None", cols |-> FALSE, macd |-> NaN, sig |-> NaN]
MacdEmpty == [res |-> "empty", cols |-> FALSE, macd |-> NaN, sig |-> NaN]
MacdOtherColumns == [res |-> "frame", cols |-> FALSE, macd |-> NaN, sig |-> NaN]
MacdFrame(macd, sig) == [res |-> "frame", cols |-> TRUE, macd |-> macd, sig |-> sig]
MacdResults(vals) ==
    LET floats == {NaN} \cup {F(x) : x \in vals}
    IN  {MacdNone, MacdEmpty, MacdOtherColumns}
            \cup {MacdFrame(m, s) : m \in floats, s \in floats}

MACDParams ==
    [macd_fast : {12}, macd_slow : {26, 40}, macd_signal : {9},
     position_size : PositionSizes]

MACDCrossover_init(params) ==
    [cls |-> "MACDCrossover", params |-> params,
     last_macd |-> None, last_signal |-> None]

Max(a, b) == IF a >= b THEN a ELSE b

\* the floor of the minimum window length
MACDFloorLen == 30

MACDData(params) ==
    [len : WindowLens(Max(params.macd_slow, MACDFloorLen)),
     macd_res : MacdResults(MACDValues)]

MACDMinLen(params) == Max(params.macd_slow, MACDFloorLen)

MACDIsNaN(current_macd, current_sig) == isna(current_macd) \/ isna(current_sig)

\* mutant: strict comparison on the previous side of the bearish crossover
MACDAction_StrictPrev(last_macd, last_signal, current_macd, current_sig) ==
    IF last_macd # None /\ last_signal # None
    THEN IF Le(last_macd[1], last_signal[1]) /\ Gt(current_macd, current_sig)
         THEN "buy"
         ELSE IF Gt(last_macd[1], last_signal[1]) /\ Lt(current_macd, current_sig)
         THEN "sell"
         ELSE "hold"
    ELSE "hold"

MACDAction(last_macd, last_signal, current_macd, current_sig) ==
    IF last_macd # None /\ last_signal # None
    THEN IF Le(last_macd[1], last_signal[1]) /\ Gt(current_macd, current_sig)
         THEN "buy"
         ELSE IF Ge(last_macd[1], last_signal[1]) /\ Lt(current_macd, current_sig)
         THEN "sell"
         ELSE "hold"
    ELSE "hold"

MACDQuantity(action, params) ==
    IF action = "hold" THEN 0 ELSE params.position_size

MACDReason(action, current_macd, current_sig) ==
    CASE action = "buy" -> <<"MACD bullish crossover", current_macd.v, current_sig.v>>
      [] action = "sell" -> <<"MACD bearish crossover", current_macd.v, current_sig.v>>
      [] OTHER -> <<"MACD, Signal", current_macd.v, current_sig.v>>

MACDCrossover_on_data(self, data) ==
    IF data.len < MACDMinLen(self.params)
    THEN Return(Signal("hold", 0, <<"Insufficient data for MACD">>), self)
    ELSE IF data.macd_res.res = "None" \/ data.macd_res.res = "empty"
    THEN Return(Signal("hold", 0, <<"MACD calculation failed">>), self)
    ELSE IF ~data.macd_res.cols
    THEN Return(Signal("hold", 0, <<"MACD columns missing">>), self)
    ELSE IF MACDIsNaN(data.macd_res.macd, data.macd_res.sig)
    THEN Return(Signal("hold", 0, <<"MACD or signal is NaN">>), self)
    ELSE LET current_macd == data.macd_res.macd
             current_sig == data.macd_res.sig
             action == MACDAction(self.last_macd, self.last_signal,
                                  current_macd, current_sig)
         IN  Return(Signal(action, MACDQuantity(action, self.params),
                           MACDReason(action, current_macd, current_sig)),
                    [self EXCEPT !.last_macd = Some(current_macd),
                                 !.last_signal = Some(current_sig)])

----------------------------------------------------------------------------
(* MyCustomStrategy: RSI + MACD + volume *)

CustomRSIValues == {25, 30, 75}
CustomMACDValues == {0, 1}

\* volume_threshold as a fraction: 1.5 = 3/2
CustomParams ==
    [rsi_period : {14}, rsi_oversold : {30}, rsi_overbought : {70},
     macd_fast : {12}, macd_slow : {26}, macd_signal : {9},
     volume_threshold : {[num |-> 3, den |-> 2]},
     position_size : PositionSizes]

MyCustomStrategy_init(params) ==
    [cls |-> "MyCustomStrategy", params |-> params]

CustomMinLen == 50

\* number of trailing bars averaged for the volume condition
TrailingBars == 20

\* The volume column of a window: its last `recent` bars trade `new`
\* shares, the bars before them `old` shares
Volumes == [old : {1}, new : {3}, recent : {1, 10, 25}]

CustomData ==
    [len : WindowLens(CustomMinLen), rsi : Results(CustomRSIValues),
     macd_res : MacdResults(CustomMACDValues), volume : Volumes]

\* data['volume'].iloc[i - 1] of a window of `len` bars
VolumeAt(volume, len, i) ==
    IF i > len - volume.recent THEN volume.new ELSE volume.old

RECURSIVE VolumeSum(_, _, _, _)
VolumeSum(volume, len, from, to) ==
    IF from > to THEN 0
    ELSE VolumeAt(volume, len, from) + VolumeSum(volume, len, from + 1, to)

\* data['volume'].iloc[-20:] : the bars from First to len
TrailingFirst(len) == IF len > TrailingBars THEN len - TrailingBars + 1 ELSE 1

\* mutant: >= in place of > in the volume condition
HighVolume_NotStrict(volume, len, threshold) ==
    LET first == IF len > TrailingBars THEN len - TrailingBars + 1 ELSE 1
        count == len - first + 1
        total == VolumeSum(volume, len, first, len)
        current_volume == VolumeAt(volume, len, len)
    IN  current_volume * count * threshold.den >= total * threshold.num

\* current_volume > avg_volume * volume_threshold, where avg_volume is the
\* mean of the trailing bars, in integers: both sides times count * den
HighVolume(volume, len, threshold) ==
    LET first == TrailingFirst(len)
        count == len - first + 1
        total == VolumeSum(volume, len, first, len)
        current_volume == VolumeAt(volume, len, len)
    IN  current_volume * count * threshold.den > total * threshold.num

BuyConditions(current_rsi, current_macd, current_signal, high_volume, params) ==
    /\ Lt(current_rsi, F(params.rsi_oversold))
    /\ Gt(current_macd, current_signal)
    /\ high_volume

SellConditions(current_rsi, current_macd, current_signal, high_volume, params) ==
    /\ Gt(current_rsi, F(params.rsi_overbought))
    /\ Lt(current_macd, current_signal)
    /\ high_volume

\* an uncaught exception: nothing is returned, the instance is as before
Raise(exception, self) ==
    [raised |-> TRUE, signal |-> Signal("none", 0, <<exception>>), self |-> self]

MyCustomStrategy_on_data(self, data) ==
    IF data.len < CustomMinLen
    THEN Return(Signal("hold", 0, <<"Insufficient data">>), self)
    ELSE IF \/ data.rsi.res = "None" \/ data.macd_res.res = "None"
            \/ data.rsi.res = "empty" \/ data.macd_res.res = "empty"
    THEN Return(Signal("hold", 0, <<"Indicator calculation failed">>), self)
    ELSE IF ~data.macd_res.cols
    THEN Raise("KeyError", self)
    ELSE LET current_rsi == data.rsi.last
             current_macd == data.macd_res.macd
             current_signal == data.macd_res.sig
             high_volume == HighVolume(data.volume, data.len,
                                       self.params.volume_threshold)
         IN  IF isna(current_rsi) \/ isna(current_macd) \/ isna(current_signal)
             THEN Return(Signal("hold", 0, <<"Indicator is NaN">>), self)
             ELSE IF BuyConditions(current_rsi, current_macd, current_signal,
                                   high_volume, self.params)
             THEN Return(Signal("buy", self.params.position_size,
                                <<"All buy conditions met", current_rsi.v>>), self)
             ELSE IF SellConditions(current_rsi, current_macd, current_signal,
                                    high_volume, self.params)
             THEN Return(Signal("sell", self.params.position_size,
                                <<"All sell conditions met", current_rsi.v>>), self)
             ELSE Return(Signal("hold", 0, <<"No clear signal", current_rsi.v>>), self)

----------------------------------------------------------------------------
(* The instance under test and the operations on it *)

Strategies ==
    {RSIStrategy_init(p) : p \in RSIParams}
        \cup {MovingAverageCrossover_init(p) : p \in MAParams}
        \cup {MACDCrossover_init(p) : p \in MACDParams}
        \cup {MyCustomStrategy_init(p) : p \in CustomParams}

\* no cycle step taken yet
NewCycle ==
    [fetch |-> "none", len |-> 0, executed |-> FALSE, result |-> FALSE,
     lookup |-> "none", reads |-> <<>>, orders |-> <<>>, held |-> 0]

\* no backtest is set up
NoBacktest ==
    /\ order = <<>>
    /\ broker_orders = <<>>
    /\ bars = 0

\* no LiveTrader is constructed
NoTrader ==
    /\ pc = "none"
    /\ running = FALSE
    /\ position = 0
    /\ start_position = 0
    /\ cycle = NewCycle
    /\ config = None

Init ==
    /\ strategy \in Strategies
    /\ call = [op |-> "construct"]
    /\ fresh = TRUE
    /\ fired = "none"
    /\ NoTrader
    /\ NoBacktest

\* strategy.initialize(): prints the name and the params
Initialize ==
    /\ call' = [op |-> "initialize"]
    /\ UNCHANGED <<strategy, fresh, fired, liveVars, btVars>>

\* the window passes the length and the availability checks of on_data
Evaluated(self, data) ==
    CASE self.cls = "RSIStrategy" ->
            data.len >= RSIMinLen(self.params) /\ ~RSIUnavailable(data.rsi)
      [] self.cls = "MovingAverageCrossover" ->
            /\ data.len >= MAMinLen(self.params)
            /\ ~MAFailed(data.fast_ma, data.slow_ma)
            /\ ~MAIsNaN(data.fast_ma.last, data.slow_ma.last)
      [] self.cls = "MACDCrossover" ->
            /\ data.len >= MACDMinLen(self.params)
            /\ data.macd_res.res = "frame"
            /\ data.macd_res.cols
            /\ ~MACDIsNaN(data.macd_res.macd, data.macd_res.sig)
      [] OTHER -> FALSE

Record(data, r) ==
    /\ strategy' = r.self
    /\ call' = [op |-> "on_data", data |-> data, before |-> strategy,
                raised |-> r.raised, signal |-> r.signal]
    /\ fresh' = FALSE
    /\ fired' = IF Evaluated(strategy, data) THEN r.signal.action ELSE fired

RSIOnData ==
    /\ strategy.cls = "RSIStrategy"
    /\ \E data \in RSIData(strategy.params) : Record(data, RSIStrategy_on_data(strategy, data))
    /\ UNCHANGED <<liveVars, btVars>>

MAOnData ==
    /\ strategy.cls = "MovingAverageCrossover"
    /\ \E data \in MAData(strategy.params) :
           Record(data, MovingAverageCrossover_on_data(strategy, data))
    /\ UNCHANGED <<liveVars, btVars>>

MACDOnData ==
    /\ strategy.cls = "MACDCrossover"
    /\ \E data \in MACDData(strategy.params) :
           Record(data, MACDCrossover_on_data(strategy, data))
    /\ UNCHANGED <<liveVars, btVars>>

CustomOnData ==
    /\ strategy.cls = "MyCustomStrategy"
    /\ \E data \in CustomData :
           Record(data, MyCustomStrategy_on_data(strategy, data))
    /\ UNCHANGED <<liveVars, btVars>>

Next ==
    \/ Initialize
    \/ RSIOnData
    \/ MAOnData
    \/ MACDOnData
    \/ CustomOnData

Spec == Init /\ [][Next]_vars

----------------------------------------------------------------------------
(* LiveTrader *)

\* cap on the position the model lets the broker hold
MaxPosition == 20

\* position held at the broker when the trader is constructed
StartPositions == {-5, 0, 3}

\* get_historical_data(days = 30) asks for the daily bars of the last 30
\* days: the request fails, or returns 0 (an empty frame) to 30 bars
FetchDays == 30
LiveWindowLens == {0, 14, 15, FetchDays}
FetchOutcomes == {"error", "ok"}

LiveStrategies ==
    {RSIStrategy_init(p) :
        p \in [rsi_period : {14}, oversold : {30}, overbought : {70},
               position_size : {0, 5, 10}]}
        \cup {MovingAverageCrossover_init(p) :
                p \in [fast_period : {10}, slow_period : {30}, ma_type : {"SMA"},
                       position_size : {10}]}
        \cup {MACDCrossover_init(p) :
                p \in [macd_fast : {12}, macd_slow : {26}, macd_signal : {9},
                       position_size : {10}]}
        \cup {MyCustomStrategy_init(p) :
                p \in [rsi_period : {14}, rsi_oversold : {30}, rsi_overbought : {70},
                       macd_fast : {12}, macd_slow : {26}, macd_signal : {9},
                       volume_threshold : {[num |-> 3, den |-> 2]},
                       position_size : {10}]}

\* A strategy written by the user: a subclass of BaseStrategy whose on_data
\* returns whatever signal its author computes from the window
BaseStrategy_init(params) == [cls |-> "BaseStrategy", params |-> params]

\* the signals such a subclass returns
SubclassSignals ==
    {Signal("hold", 0, <<"subclass">>)}
        \cup {Signal(action, quantity, <<"subclass">>) :
                action \in {"buy", "sell"}, quantity \in PositionSizes}

\* on_data of the subclass: the signal it computes for this window
BaseStrategy_on_data(self, data) == Return(data.signal, self)

\* the windows of `len` bars, with what the indicator library returns for them
LiveData(self, len) ==
    CASE self.cls = "RSIStrategy" -> [len : {len}, rsi : Results(RSIValues)]
      [] self.cls = "BaseStrategy" -> [len : {len}, signal : SubclassSignals]
      [] self.cls = "MovingAverageCrossover" ->
            [len : {len}, fast_ma : Results({100, 101}), slow_ma : Results({100, 101})]
      [] self.cls = "MACDCrossover" -> [len : {len}, macd_res : MacdResults(MACDValues)]
      [] OTHER -> [len : {len}, rsi : Results({25}), macd_res : MacdResults({0, 1}),
                   volume : [old : {1}, new : {3}, recent : {1}]]

\* self.strategy.on_data(data)
on_data(self, data) ==
    CASE self.cls = "RSIStrategy" -> RSIStrategy_on_data(self, data)
      [] self.cls = "BaseStrategy" -> BaseStrategy_on_data(self, data)
      [] self.cls = "MovingAverageCrossover" -> MovingAverageCrossover_on_data(self, data)
      [] self.cls = "MACDCrossover" -> MACDCrossover_on_data(self, data)
      [] OTHER -> MyCustomStrategy_on_data(self, data)

\* the broker answers a call ("ok") or the call raises ("error")
BrokerAnswers == {"ok", "error"}

\* get_current_position: the held quantity; 0.0 when the lookup raises (the
\* broker raises too when no position is open)
\* mutant: a failed lookup is answered with the position last known
get_current_position_Stale(held, lookup) == held

get_current_position(held, lookup) ==
    IF lookup = "ok" /\ held # 0 THEN held ELSE 0

\* place_market_order: one submit_order call inside try / except Exception;
\* True unless the call raised
Order(side, quantity, submit) ==
    [side |-> side, qty |-> quantity, accepted |-> (submit = "ok")]

\* mutant: a failed submission is tried a second time
place_market_order_Retry(side, quantity, submit) ==
    [result |-> (submit = "ok"), raised |-> FALSE,
     orders |-> IF submit = "ok" THEN <<Order(side, quantity, submit)>>
                ELSE <<Order(side, quantity, submit), Order(side, quantity, submit)>>]

\* mutant: the order is submitted twice
place_market_order_Twice(side, quantity, submit) ==
    [result |-> (submit = "ok"), raised |-> FALSE,
     orders |-> <<Order(side, quantity, submit), Order(side, quantity, submit)>>]

\* mutant: no try / except around submit_order
place_market_order_Uncaught(side, quantity, submit) ==
    [result |-> (submit = "ok"), raised |-> (submit # "ok"),
     orders |-> <<Order(side, quantity, submit)>>]

place_market_order(side, quantity, submit) ==
    [result |-> (submit = "ok"), raised |-> FALSE,
     orders |-> <<Order(side, quantity, submit)>>]

\* mutant: min() replaced by the signal's quantity
Min_First(a, b) == a

\* mutant: min() replaced by the whole position
Min_Second(a, b) == b

Min(a, b) == IF a <= b THEN a ELSE b

\* mutant: only an action of hold is a no-op
NoAction_HoldOnly(action, quantity) == action = "hold"

\* action == 'hold' or quantity == 0
NoAction(action, quantity) == action = "hold" \/ quantity = 0

\* mutant: a buy is admitted only when flat
BuyAdmissible_FlatOnly(current_position) == current_position = 0

BuyAdmissible(current_position) == current_position >= 0

\* mutant: a sell is admitted when flat
SellAdmissible_NotShort(current_position) == current_position >= 0

SellAdmissible(current_position) == current_position > 0

\* what execute_signal returns (result), the positions it read from the
\* broker (reads), the orders it submitted (orders), and whether an
\* exception left it (raised)
Executed(result, reads, orders, raised) ==
    [result |-> result, reads |-> reads, orders |-> orders, raised |-> raised]

execute_signal(signal, held, lookup, submit) ==
    LET action == signal.action
        quantity == signal.quantity
    IN  IF NoAction(action, quantity)
        THEN Executed(TRUE, <<>>, <<>>, FALSE)
        ELSE LET current_position == get_current_position(held, lookup)
             IN  IF action = "buy"
                 THEN IF BuyAdmissible(current_position)
                      THEN LET placed == place_market_order("buy", quantity, submit)
                           IN  Executed(placed.result, <<current_position>>,
                                        placed.orders, placed.raised)
                      ELSE Executed(FALSE, <<current_position>>, <<>>, FALSE)
                 ELSE IF action = "sell"
                 THEN IF SellAdmissible(current_position)
                      THEN LET sell_qty == Min(quantity, current_position)
                               placed == place_market_order("sell", sell_qty, submit)
                           IN  Executed(placed.result, <<current_position>>,
                                        placed.orders, placed.raised)
                      ELSE Executed(FALSE, <<current_position>>, <<>>, FALSE)
                 ELSE Executed(FALSE, <<current_position>>, <<>>, FALSE)

\* The broker: an accepted market order fills at its submitted quantity
\* before the position is read again
RECURSIVE Filled(_, _)
Filled(held, orders) ==
    IF orders = <<>> THEN held
    ELSE LET o == Head(orders)
             delta == IF ~o.accepted THEN 0
                      ELSE IF o.side = "buy" THEN o.qty ELSE 0 - o.qty
         IN  Filled(held + delta, Tail(orders))

\* a configuration run_live_trading accepted, in paper mode
PaperConfig == [alpaca_api_key |-> "key", alpaca_secret_key |-> "secret",
                alpaca_trading_mode |-> "paper"]

InitLive ==
    /\ strategy \in LiveStrategies
    /\ call = [op |-> "construct"]
    /\ fresh = TRUE
    /\ pc = "new"
    /\ running = FALSE
    /\ position \in StartPositions
    /\ start_position = position
    /\ cycle = NewCycle
    /\ config = PaperConfig
    /\ fired = "none"
    /\ NoBacktest

\* run(): initialize the strategy, set running, enter the loop
Run ==
    /\ pc = "new"
    /\ call' = [op |-> "initialize"]
    /\ running' = TRUE
    /\ pc' = "fetch"
    /\ UNCHANGED <<strategy, fresh, fired, position, start_position, cycle, config, btVars>>

\* run_once: data = self.get_historical_data(); a failed request raises out
\* of run_once and out of run(); an empty frame ends the cycle
Fetch ==
    /\ pc = "fetch" /\ running
    /\ \E outcome \in FetchOutcomes, len \in LiveWindowLens :
          /\ outcome = "error" => len = 0
          /\ cycle' = [NewCycle EXCEPT
                          !.fetch = IF outcome = "error" THEN "error"
                                    ELSE IF len = 0 THEN "empty" ELSE "ok",
                          !.len = len]
          /\ pc' = IF outcome = "error" THEN "raised"
                   ELSE IF len = 0 THEN "sleep" ELSE "evaluate"
    /\ UNCHANGED <<strategy, call, fresh, fired, running, position, start_position, config, btVars>>

\* run_once: signal = self.strategy.on_data(data)
Evaluate ==
    /\ pc = "evaluate"
    /\ \E data \in LiveData(strategy, cycle.len) :
          LET r == on_data(strategy, data)
          IN  /\ Record(data, r)
              /\ pc' = IF r.raised THEN "raised" ELSE "execute"
    /\ UNCHANGED <<running, position, start_position, cycle, config, btVars>>

\* run_once: self.execute_signal(signal); the result is dropped
Execute ==
    /\ pc = "execute"
    /\ \E lookup \in BrokerAnswers, submit \in BrokerAnswers :
          LET e == execute_signal(call.signal, position, lookup, submit)
          IN  /\ Filled(position, e.orders) <= MaxPosition
              /\ cycle' = [cycle EXCEPT !.executed = TRUE, !.result = e.result,
                                        !.reads = e.reads, !.orders = e.orders,
                                        !.held = position,
                                        !.lookup = IF e.reads = <<>> THEN "none"
                                                   ELSE lookup]
              /\ position' = Filled(position, e.orders)
              /\ pc' = IF e.raised THEN "raised" ELSE "sleep"
    /\ UNCHANGED <<strategy, call, fresh, fired, running, start_position, config, btVars>>

\* mutant: initialize() is called inside the loop
Sleep_Reinitialize ==
    /\ pc = "sleep"
    /\ pc' = "fetch"
    /\ call' = [op |-> "initialize"]
    /\ UNCHANGED <<strategy, fresh, fired, running, position, start_position, cycle, config,
                   btVars>>

\* time.sleep(interval_minutes * 60) returns and the loop tests self.running
Sleep ==
    /\ pc = "sleep"
    /\ pc' = "fetch"
    /\ UNCHANGED <<strategy, call, fresh, fired, running, position, start_position, cycle, config,
                   btVars>>

\* mutant: KeyboardInterrupt is not caught by run()
Interrupt_Uncaught ==
    /\ pc \in {"fetch", "evaluate", "execute", "sleep"}
    /\ pc' = "raised"
    /\ UNCHANGED <<strategy, call, fresh, fired, running, position, start_position, cycle, config,
                   btVars>>

\* KeyboardInterrupt inside the loop: caught by run(), which stops
Interrupt ==
    /\ pc \in {"fetch", "evaluate", "execute", "sleep"}
    /\ running' = FALSE
    /\ pc' = "stopped"
    /\ UNCHANGED <<strategy, call, fresh, fired, position, start_position, cycle, config, btVars>>

NextLive ==
    \/ Run
    \/ Fetch
    \/ Evaluate
    \/ Execute
    \/ Sleep
    \/ Interrupt

SpecLive == InitLive /\ [][NextLive]_vars

----------------------------------------------------------------------------
(* BacktraderStrategyWrapper (backtesting/backtester.py)                   *)
(*                                                                         *)
(* The engine delivers one bar at a time and calls next() on each; its     *)
(* broker takes an order through Submitted and Accepted to a final status  *)
(* and calls notify_order at each change.  Backtester keeps the engine's   *)
(* default broker (no volume filler) and places market orders without a    *)
(* validity date, so an order is filled whole or not at all.  How many     *)
(* bars pass between two status changes is left open.                      *)

\* bars in the data feed
MaxBars == 22

\* _get_dataframe(lookback=100)
Lookback == 100

\* the strategies run through the adapter: the RSI strategy of
\* examples/backtest_example.py, and a strategy written by the user
BacktestStrategies ==
    {RSIStrategy_init(p) :
        p \in [rsi_period : {14}, oversold : {30}, overbought : {70},
               position_size : PositionSizes]}
        \cup {BaseStrategy_init(<<>>)}

FinalStatuses == {"Completed", "Canceled", "Margin", "Rejected"}

\* the status changes the broker notifies for an order in status `status`
StatusChanges(status) ==
    CASE status = "Created" -> {"Submitted"}
      [] status = "Submitted" -> {"Accepted", "Margin", "Rejected"}
      [] status = "Accepted" -> FinalStatuses
      [] OTHER -> {}

\* self.buy(size=quantity) / self.sell(size=quantity): the order created
NewOrder(side, size) == [side |-> side, size |-> size, status |-> "Created"]

\* mutant: notify_order returns early on Submitted only
ReturnsEarly_SubmittedOnly(status) == status = "Submitted"

\* notify_order: if order.status in [order.Submitted, order.Accepted]: return
ReturnsEarly(status) == status \in {"Submitted", "Accepted"}

\* what notify_order leaves in self.order
notify_order(self_order, status) ==
    IF ReturnsEarly(status) THEN self_order ELSE None

\* next(): if self.order: return
Pending(self_order) == self_order # None

\* mutant: the position is not looked at
PlacedOrder_AnyPosition(signal, self_position) ==
    IF signal.action = "buy" /\ signal.quantity > 0
    THEN <<NewOrder("buy", signal.quantity)>>
    ELSE IF signal.action = "sell" /\ signal.quantity > 0
    THEN <<NewOrder("sell", signal.quantity)>>
    ELSE <<>>

\* next(): the order it places for a signal, if any
PlacedOrder(signal, self_position) ==
    IF signal.action = "buy" /\ signal.quantity > 0
    THEN IF self_position = 0 THEN <<NewOrder("buy", signal.quantity)>> ELSE <<>>
    ELSE IF signal.action = "sell" /\ signal.quantity > 0
    THEN IF self_position # 0 THEN <<NewOrder("sell", signal.quantity)>> ELSE <<>>
    ELSE <<>>

\* the broker's position after an order reached `status`
Position(held, o, status) ==
    IF status # "Completed" THEN held
    ELSE IF o.side = "buy" THEN held + o.size ELSE held - o.size

\* the sequence s without its i-th element
Without(s, i) == [j \in 1..(Len(s) - 1) |-> IF j < i THEN s[j] ELSE s[j + 1]]

\* Backtester(strategy) is constructed and has its data; run() was not
\* called yet, so no wrapper exists
InitBacktest ==
    /\ strategy \in BacktestStrategies
    /\ call = [op |-> "construct"]
    /\ fresh = TRUE
    /\ pc = "backtester"
    /\ running = FALSE
    /\ position = 0
    /\ start_position = 0
    /\ cycle = NewCycle
    /\ config = None
    /\ fired = "none"
    /\ order = None
    /\ broker_orders = <<>>
    /\ bars = 0

\* Backtester.run: cerebro.run() constructs the wrapper, whose __init__
\* calls custom_strategy.initialize() and sets self.order = None
WrapperInit ==
    /\ pc = "backtester"
    /\ call' = [op |-> "initialize"]
    /\ order' = None
    /\ pc' = "backtest"
    /\ UNCHANGED <<strategy, fresh, fired, running, position, start_position, cycle, config,
                   broker_orders, bars>>

\* the engine delivers a bar and calls next() while an order is pending
NextPending ==
    /\ pc = "backtest"
    /\ bars < MaxBars
    /\ Pending(order)
    /\ bars' = bars + 1
    /\ UNCHANGED <<strategy, call, fresh, fired, liveVars, order, broker_orders>>

\* the engine delivers a bar and calls next() with no order pending
NextDecide ==
    /\ pc = "backtest"
    /\ bars < MaxBars
    /\ ~Pending(order)
    /\ bars' = bars + 1
    /\ \E data \in LiveData(strategy, Min(Lookback, bars + 1)) :
          LET r == on_data(strategy, data)
              placed == IF r.raised THEN <<>> ELSE PlacedOrder(r.signal, position)
          IN  /\ Record(data, r)
              /\ pc' = IF r.raised THEN "raised" ELSE pc
              /\ order' = IF placed = <<>> THEN order ELSE placed
              /\ broker_orders' = broker_orders \o placed
    /\ UNCHANGED <<running, position, start_position, cycle, config>>

\* the broker moves an order to its next status and the engine calls
\* notify_order
NotifyOrder ==
    /\ pc = "backtest"
    /\ \E i \in 1..Len(broker_orders) :
          \E status \in StatusChanges(broker_orders[i].status) :
              /\ broker_orders' =
                    IF status \in FinalStatuses THEN Without(broker_orders, i)
                    ELSE [broker_orders EXCEPT ![i].status = status]
              /\ position' = Position(position, broker_orders[i], status)
              /\ order' = notify_order(order, status)
    /\ UNCHANGED <<strategy, call, fresh, fired, pc, running, start_position, cycle, config, bars>>

NextBacktest ==
    \/ WrapperInit
    \/ NextPending
    \/ NextDecide
    \/ NotifyOrder

SpecBacktest == InitBacktest /\ [][NextBacktest]_vars

----------------------------------------------------------------------------
(* run_live_trading (examples/live_trading_example.py): the entry point    *)
(* that loads the configuration, validates it, and runs a LiveTrader       *)

\* os.getenv: a variable that is not set reads as '' (keys) or 'paper' (mode)
Configs ==
    [alpaca_api_key : {"", "key"},
     alpaca_secret_key : {"", "secret"},
     alpaca_trading_mode : {"paper", "live", "test", ""}]

\* mutant: the trading mode is not checked
validate_KeysOnly(c) ==
    IF c.alpaca_api_key = "" THEN FALSE
    ELSE IF c.alpaca_secret_key = "" THEN FALSE
    ELSE TRUE

\* Config.validate
validate(c) ==
    IF c.alpaca_api_key = "" THEN FALSE
    ELSE IF c.alpaca_secret_key = "" THEN FALSE
    ELSE IF c.alpaca_trading_mode \notin {"paper", "live"} THEN FALSE
    ELSE TRUE

\* the strategies the entry point offers (choice 1 and 2)
MainStrategies ==
    {RSIStrategy_init([rsi_period |-> 14, oversold |-> 30, overbought |-> 70,
                       position_size |-> 10]),
     MovingAverageCrossover_init([fast_period |-> 10, slow_period |-> 30,
                                  ma_type |-> "SMA", position_size |-> 10])}

\* what the operator types at the prompts: answers that lead to the trader
\* being run, or an answer that makes the entry point return
Answers == {"proceed", "return"}

\* run_live_trading is entered; config = Config() has read the environment
InitMain ==
    /\ strategy \in MainStrategies
    /\ call = [op |-> "construct"]
    /\ fresh = TRUE
    /\ fired = "none"
    /\ pc = "main"
    /\ running = FALSE
    /\ position \in StartPositions
    /\ start_position = position
    /\ cycle = NewCycle
    /\ config \in Configs
    /\ NoBacktest

\* run_live_trading up to trader.run(): returns if the configuration is not
\* valid or a prompt is answered that way, else constructs the LiveTrader
Main ==
    /\ pc = "main"
    /\ \E answer \in Answers :
          pc' = IF ~validate(config) THEN "exit"
                ELSE IF answer = "return" THEN "exit"
                ELSE "new"
    /\ UNCHANGED <<strategy, call, fresh, fired, running, position, start_position, cycle,
                   config, btVars>>

NextMain == Main \/ NextLive

SpecMain == InitMain /\ [][NextMain]_vars

\* Both drivers: a live trader, or a backtest
InitDrivers == InitLive \/ InitBacktest

NextDrivers == NextLive \/ NextBacktest

SpecDrivers == InitDrivers /\ [][NextDrivers]_vars

----------------------------------------------------------------------------
(* What the properties below read off the last call *)

IsCall == call.op = "on_data"
Cls == strategy.cls
Params == strategy.params
Crossovers == {"RSIStrategy", "MovingAverageCrossover", "MACDCrossover"}
HoldsZero == ~call.raised /\ call.signal.action = "hold" /\ call.signal.quantity = 0

\* the minimum window length the strategy documents
MinWindow ==
    CASE Cls = "RSIStrategy" -> Params.rsi_period + 1
      [] Cls = "MovingAverageCrossover" -> Params.slow_period + 1
      [] Cls = "MACDCrossover" ->
            IF Params.macd_slow > 30 THEN Params.macd_slow ELSE 30
      [] OTHER -> 50

ShortWindow == IsCall /\ call.data.len < MinWindow

\* the indicator gave no result, or a last value that is not a number
NoIndicator ==
    /\ IsCall
    /\ call.data.len >= MinWindow
    /\ CASE Cls = "RSIStrategy" ->
                call.data.rsi.res # "series" \/ call.data.rsi.last.nan
         [] Cls = "MovingAverageCrossover" ->
                \/ call.data.fast_ma.res # "series"
                \/ call.data.slow_ma.res # "series"
                \/ call.data.fast_ma.last.nan
                \/ call.data.slow_ma.last.nan
         [] Cls = "MACDCrossover" ->
                \/ call.data.macd_res.res # "frame"
                \/ ~call.data.macd_res.cols
                \/ call.data.macd_res.macd.nan
                \/ call.data.macd_res.sig.nan
         [] OTHER ->
                \/ call.data.rsi.res # "series"
                \/ call.data.macd_res.res # "frame"
                \/ /\ call.data.macd_res.cols
                   /\ \/ call.data.rsi.last.nan
                      \/ call.data.macd_res.macd.nan
                      \/ call.data.macd_res.sig.nan

\* the call passed the length and the availability checks
ValidCall ==
    /\ IsCall
    /\ call.data.len >= MinWindow
    /\ CASE Cls = "RSIStrategy" ->
                call.data.rsi.res = "series" /\ ~call.data.rsi.last.nan
         [] Cls = "MovingAverageCrossover" ->
                /\ call.data.fast_ma.res = "series" /\ ~call.data.fast_ma.last.nan
                /\ call.data.slow_ma.res = "series" /\ ~call.data.slow_ma.last.nan
         [] OTHER ->
                /\ call.data.macd_res.res = "frame" /\ call.data.macd_res.cols
                /\ ~call.data.macd_res.macd.nan /\ ~call.data.macd_res.sig.nan
                /\ Cls = "MyCustomStrategy" =>
                      call.data.rsi.res = "series" /\ ~call.data.rsi.last.nan

----------------------------------------------------------------------------
(* C1: for RSIStrategy, MovingAverageCrossover and MACDCrossover, a call   *)
(* with a window shorter than the strategy's minimum returns hold with     *)
(* quantity 0 and leaves the instance as it was; a second call with the    *)
(* same short window returns the same signal.                              *)
C1_ShortWindowHolds ==
    /\ [](ShortWindow /\ Cls \in Crossovers => HoldsZero /\ strategy = call.before)
    /\ [][(/\ ShortWindow /\ Cls \in Crossovers
           /\ ShortWindow' /\ call'.data = call.data)
              => call'.signal = call.signal /\ strategy' = call.before]_vars

C1_Witness ==
    /\ ShortWindow /\ Cls \in Crossovers
    /\ call.data.len = MinWindow - 1
    /\ \/ Cls = "RSIStrategy" /\ call.before.last_rsi # None
                /\ call.data.rsi = Series(F(25))
       \/ Cls = "MovingAverageCrossover" /\ call.before.last_fast_ma # None
       \/ Cls = "MACDCrossover" /\ call.before.last_macd # None

C3_StateIsCurrent ==
    /\ [](ValidCall =>
            CASE Cls = "RSIStrategy" ->
                    strategy = [call.before EXCEPT
                                   !.last_rsi = <<call.data.rsi.last>>]
              [] Cls = "MovingAverageCrossover" ->
                    strategy = [call.before EXCEPT
                                   !.last_fast_ma = <<call.data.fast_ma.last>>,
                                   !.last_slow_ma = <<call.data.slow_ma.last>>]
              [] Cls = "MACDCrossover" ->
                    strategy = [call.before EXCEPT
                                   !.last_macd = <<call.data.macd_res.macd>>,
                                   !.last_signal = <<call.data.macd_res.sig>>]
              [] OTHER -> strategy = call.before)
    /\ [][strategy' # strategy => ValidCall' /\ call'.before = strategy]_vars

C3_Witness ==
    /\ ValidCall
    /\ Cls = "RSIStrategy"
    /\ call.signal.action = "buy"
    /\ call.before.last_rsi = <<F(40)>>
    /\ strategy.last_rsi = <<F(25)>>

(* C4 as claimed: the first on_data call on a freshly constructed instance *)
(* of any of the four strategies returns hold with quantity 0.             *)
C4_FirstCallHoldsAll ==
    [][fresh /\ IsCall' /\ ~call'.raised
          => call'.signal.action = "hold" /\ call'.signal.quantity = 0]_vars

(* C4 as amended: the first on_data call on a freshly constructed          *)
(* RSIStrategy, MovingAverageCrossover or MACDCrossover returns hold with  *)
(* quantity 0 for every window.                                            *)
C4_FirstCallHolds ==
    [][fresh /\ IsCall' /\ Cls \in Crossovers
          => /\ ~call'.raised
             /\ call'.signal.action = "hold"
             /\ call'.signal.quantity = 0]_vars

\* a first call whose value is below the oversold threshold
C4_Witness ==
    /\ ValidCall
    /\ Cls = "RSIStrategy"
    /\ call.before = RSIStrategy_init(Params)
    /\ call.data.rsi.last.v < Params.oversold
    /\ call.signal.action = "hold"

(* C5: on a valid evaluation RSIStrategy returns buy exactly when a        *)
(* previous RSI is stored, previous RSI >= oversold and current RSI <      *)
(* oversold, whatever the thresholds.                                      *)
C5_RSIBuy ==
    ValidCall /\ Cls = "RSIStrategy" =>
        (call.signal.action = "buy" <=>
            /\ call.before.last_rsi # <<>>
            /\ call.before.last_rsi[1].v >= Params.oversold
            /\ call.data.rsi.last.v < Params.oversold)

\* RSI 40 then 25 with oversold = 30
C5_Witness ==
    /\ ValidCall /\ Cls = "RSIStrategy"
    /\ Params.oversold = 30
    /\ call.before.last_rsi = <<F(40)>>
    /\ call.data.rsi.last = F(25)
    /\ call.signal.action = "buy"
    /\ call.signal.quantity = Params.position_size

(* C6: on a valid evaluation RSIStrategy returns sell exactly when a       *)
(* previous RSI is stored, previous RSI <= overbought and current RSI >    *)
(* overbought, whatever the thresholds (oversold > overbought included).   *)
C6_RSISell ==
    ValidCall /\ Cls = "RSIStrategy" =>
        (call.signal.action = "sell" <=>
            /\ call.before.last_rsi # <<>>
            /\ call.before.last_rsi[1].v <= Params.overbought
            /\ call.data.rsi.last.v > Params.overbought)

(* C7: on a valid evaluation with stored previous values,                  *)
(* MovingAverageCrossover returns buy exactly when previous fast <=        *)
(* previous slow and current fast > current slow, sell exactly when        *)
(* previous fast >= previous slow and current fast < current slow, hold    *)
(* otherwise; the two conditions never hold together.                      *)
C7_MACross ==
    (/\ ValidCall /\ Cls = "MovingAverageCrossover"
     /\ call.before.last_fast_ma # <<>> /\ call.before.last_slow_ma # <<>>)
    => LET pf == call.before.last_fast_ma[1].v
           ps == call.before.last_slow_ma[1].v
           cf == call.data.fast_ma.last.v
           cs == call.data.slow_ma.last.v
           golden == pf <= ps /\ cf > cs
           death == pf >= ps /\ cf < cs
       IN  /\ call.signal.action = "buy" <=> golden
           /\ call.signal.action = "sell" <=> death
           /\ call.signal.action = "hold" <=> ~golden /\ ~death
           /\ ~(golden /\ death)

\* previous fast 9.5 <= previous slow 10.0, current fast 10.2 > current slow 10.1
C7_Witness ==
    /\ ValidCall /\ Cls = "MovingAverageCrossover"
    /\ call.before.last_fast_ma = <<F(95)>>
    /\ call.before.last_slow_ma = <<F(100)>>
    /\ call.data.fast_ma.last = F(102)
    /\ call.data.slow_ma.last = F(101)
    /\ call.signal.action = "buy"

(* C8: on a valid evaluation with stored previous values, MACDCrossover    *)
(* returns buy exactly when previous MACD <= previous signal line and      *)
(* current MACD > current signal line, sell exactly when previous MACD >=  *)
(* previous signal line and current MACD < current signal line, hold       *)
(* otherwise.                                                              *)
C8_MACDCross ==
    (/\ ValidCall /\ Cls = "MACDCrossover"
     /\ call.before.last_macd # <<>> /\ call.before.last_signal # <<>>)
    => LET pm == call.before.last_macd[1].v
           ps == call.before.last_signal[1].v
           cm == call.data.macd_res.macd.v
           cs == call.data.macd_res.sig.v
           bullish == pm <= ps /\ cm > cs
           bearish == pm >= ps /\ cm < cs
       IN  /\ call.signal.action = "buy" <=> bullish
           /\ call.signal.action = "sell" <=> bearish
           /\ call.signal.action = "hold" <=> ~bullish /\ ~bearish

\* MACD on the signal line, then below it
C8_Witness ==
    /\ ValidCall /\ Cls = "MACDCrossover"
    /\ call.before.last_macd = <<F(0)>>
    /\ call.before.last_signal = <<F(0)>>
    /\ call.data.macd_res.macd = F(-1)
    /\ call.data.macd_res.sig = F(0)
    /\ call.signal.action = "sell"

\* current volume > volume_threshold * (mean volume of the last 20 bars),
\* for a window of at least 20 bars whose last `recent` bars trade `new`
C9_VolumeHigh ==
    LET vol == call.data.volume
        k == IF vol.recent > 20 THEN 20 ELSE vol.recent
        sum20 == k * vol.new + (20 - k) * vol.old
    IN  vol.new * 20 * Params.volume_threshold.den
            > Params.volume_threshold.num * sum20

(* C9: on a valid evaluation the composite strategy returns buy exactly    *)
(* when RSI < oversold, MACD > MACD signal and the current volume exceeds  *)
(* volume_threshold times the mean volume of the trailing 20 bars; sell    *)
(* exactly when RSI > overbought, MACD < MACD signal and the same volume   *)
(* condition; hold whenever a condition of each set fails.                 *)
C9_Composite ==
    ValidCall /\ Cls = "MyCustomStrategy" =>
        LET rsi == call.data.rsi.last.v
            macd == call.data.macd_res.macd.v
            sig == call.data.macd_res.sig.v
            buy == rsi < Params.rsi_oversold /\ macd > sig /\ C9_VolumeHigh
            sell == rsi > Params.rsi_overbought /\ macd < sig /\ C9_VolumeHigh
        IN  /\ ~call.raised
            /\ call.signal.action = "buy" <=> buy
            /\ call.signal.action = "sell" <=> sell
            /\ call.signal.action = "hold" <=> ~buy /\ ~sell

\* RSI and MACD say buy, the volume is exactly 1.5 times the mean: hold
C9_Witness ==
    /\ ValidCall /\ Cls = "MyCustomStrategy"
    /\ call.data.rsi.last = F(25)
    /\ call.data.macd_res.macd = F(1)
    /\ call.data.macd_res.sig = F(0)
    /\ call.data.volume.recent = 10
    /\ call.signal.action = "hold"

(* C10: every signal on_data returns has an action among buy, sell and     *)
(* hold, a quantity and a reason; the quantity is the configured           *)
(* position_size when the action is buy or sell, and 0 when it is hold.    *)
C10_SignalShape ==
    IsCall /\ ~call.raised =>
        /\ DOMAIN call.signal = {"action", "quantity", "reason"}
        /\ call.signal.action \in {"buy", "sell", "hold"}
        /\ call.signal.action \in {"buy", "sell"} =>
              call.signal.quantity = Params.position_size
        /\ call.signal.action = "hold" => call.signal.quantity = 0

C10_Witness ==
    /\ IsCall /\ ~call.raised
    /\ Cls = "MACDCrossover"
    /\ call.signal.action = "buy"
    /\ call.signal.quantity = Params.position_size
    /\ Params.position_size = 5

----------------------------------------------------------------------------
(* What the properties of the live trader read off the current cycle *)

\* execute_signal ran in this cycle, on the signal of this cycle's on_data
Executing == cycle.executed /\ IsCall
SignalQty == call.signal.quantity
PositionRead == cycle.reads[1]
Placed == cycle.orders # <<>>
\* run() is still in its loop, or was stopped by an interrupt
LoopGoesOn ==
    /\ pc \in {"sleep", "fetch", "stopped"}
    /\ pc # "stopped" => running

(* C11: execute_signal with a sell signal of positive quantity submits an  *)
(* order only when the position it read is strictly positive, and then for *)
(* min(signal quantity, position read): never more than the position read. *)
C11_SellCapped ==
    (Executing /\ call.signal.action = "sell" /\ SignalQty > 0) =>
        /\ Len(cycle.reads) = 1
        /\ Placed <=> PositionRead > 0
        /\ Placed =>
              /\ Len(cycle.orders) = 1
              /\ cycle.orders[1].side = "sell"
              /\ cycle.orders[1].qty =
                    (IF SignalQty <= PositionRead THEN SignalQty ELSE PositionRead)
              /\ cycle.orders[1].qty <= PositionRead

\* a sell of 5 with 3 held submits 3
C11_Witness ==
    /\ Executing /\ call.signal.action = "sell"
    /\ SignalQty = 5
    /\ cycle.held = 3
    /\ Placed
    /\ cycle.orders[1].qty = 3

(* C12: execute_signal with a buy signal of positive quantity submits an   *)
(* order exactly when the position it read is >= 0, and then for exactly   *)
(* the signal's quantity, also when already long.                          *)
C12_BuyAdmitted ==
    (Executing /\ call.signal.action = "buy" /\ SignalQty > 0) =>
        /\ Len(cycle.reads) = 1
        /\ Placed <=> PositionRead >= 0
        /\ Placed =>
              /\ Len(cycle.orders) = 1
              /\ cycle.orders[1].side = "buy"
              /\ cycle.orders[1].qty = SignalQty

\* a buy of 10 while 10 are held
C12_Witness ==
    /\ Executing /\ call.signal.action = "buy"
    /\ SignalQty = 10
    /\ PositionRead = 10
    /\ Placed
    /\ cycle.orders[1].qty = 10
    /\ cycle.orders[1].accepted
    /\ position = 20

(* C13: execute_signal with action hold, or with quantity 0 under any      *)
(* action, submits no order, makes no broker call (the position is not     *)
(* read) and returns True.                                                 *)
C13_NoAction ==
    (Executing /\ (call.signal.action = "hold" \/ SignalQty = 0)) =>
        /\ cycle.orders = <<>>
        /\ cycle.reads = <<>>
        /\ cycle.result = TRUE
        /\ position = cycle.held

\* a buy signal of quantity 0
C13_Witness ==
    /\ Executing
    /\ call.signal.action = "buy"
    /\ SignalQty = 0
    /\ cycle.result = TRUE

\* a buy while the position read is negative, a sell while it is <= 0
Inadmissible ==
    /\ Executing /\ SignalQty > 0
    /\ cycle.reads # <<>>
    /\ \/ call.signal.action = "buy" /\ PositionRead < 0
       \/ call.signal.action = "sell" /\ PositionRead <= 0

(* C14: an inadmissible signal (buy while the position is negative, sell   *)
(* while it is zero or negative) submits no order and raises nothing; the  *)
(* loop goes on as after any other cycle.                                  *)
C14_Suppressed ==
    Inadmissible =>
        /\ cycle.orders = <<>>
        /\ position = cycle.held
        /\ LoopGoesOn

\* a sell while flat
C14_Witness ==
    /\ Inadmissible
    /\ call.signal.action = "sell"
    /\ cycle.held = 0
    /\ pc = "fetch"

(* C15: for an admissible buy or sell, execute_signal makes exactly one    *)
(* order submission and returns True if it succeeded, False if it failed;  *)
(* no cycle makes more than one submission (a failed one is not retried).  *)
C15_OneSubmission ==
    /\ Len(cycle.orders) <= 1
    /\ (/\ Executing /\ SignalQty > 0
        /\ cycle.reads # <<>>
        /\ \/ call.signal.action = "buy" /\ PositionRead >= 0
           \/ call.signal.action = "sell" /\ PositionRead > 0)
       => /\ Len(cycle.orders) = 1
          /\ cycle.result = cycle.orders[1].accepted

\* a failed submission of a buy
C15_Witness ==
    /\ Executing /\ call.signal.action = "buy"
    /\ Len(cycle.orders) = 1
    /\ ~cycle.orders[1].accepted
    /\ cycle.result = FALSE

(* C16 as claimed: in the live driver, started flat, the held position     *)
(* never exceeds one trade unit (position_size).                           *)
C16_OneUnit ==
    start_position = 0 => position <= Params.position_size

(* C16 as amended: the live driver does not cap the position at one trade  *)
(* unit; a cycle adds at most position_size to the position.               *)
C16_GrowsByUnit ==
    [][position' <= position + Params.position_size]_vars

\* started flat, two trade units held
C16_Witness ==
    /\ start_position = 0
    /\ Params.position_size = 10
    /\ position = 20

(* C17: started from a non-negative position, with every accepted order    *)
(* filled at its submitted quantity before the next cycle, the position    *)
(* held is never negative.                                                 *)
C17_NeverShort ==
    start_position >= 0 => position >= 0

\* a sell of 10 with 3 held leaves 0
C17_Witness ==
    /\ start_position = 3
    /\ Executing /\ call.signal.action = "sell"
    /\ SignalQty = 10
    /\ cycle.held = 3
    /\ cycle.orders # <<>> /\ cycle.orders[1].accepted
    /\ position = 0

(* C18: in the backtest adapter, while an order that next() placed has    *)
(* not reached a final status, a next() call changes nothing: on_data is   *)
(* not called, the strategy's stored values stay, no order is placed; and  *)
(* at most one order is outstanding at any time.                           *)
C18_PendingSkips ==
    [][/\ Len(broker_orders') <= 1
       /\ (bars' # bars /\ broker_orders # <<>>) =>
             /\ strategy' = strategy
             /\ call' = call
             /\ fresh' = fresh
             /\ order' = order
             /\ broker_orders' = broker_orders]_vars

\* two bars after the bar of a buy, its order is still only accepted
C18_Witness ==
    /\ Cls = "RSIStrategy"
    /\ IsCall
    /\ call.signal.action = "buy"
    /\ bars = call.data.len + 2
    /\ order # None
    /\ Len(broker_orders) = 1
    /\ broker_orders[1].status = "Accepted"
    /\ strategy.last_rsi = <<call.data.rsi.last>>

(* C19: a failed order submission is absorbed: execute_signal returns      *)
(* False, nothing propagates, the loop goes on to its sleep and next       *)
(* cycle, and the strategy keeps the value its evaluation stored.          *)
C19_FailedSubmission ==
    /\ (Executing /\ Placed /\ ~cycle.orders[1].accepted) =>
          /\ cycle.result = FALSE
          /\ LoopGoesOn
          /\ position = cycle.held
          /\ Cls = "RSIStrategy" => strategy.last_rsi = <<call.data.rsi.last>>
          /\ Cls = "MACDCrossover" =>
                /\ strategy.last_macd = <<call.data.macd_res.macd>>
                /\ strategy.last_signal = <<call.data.macd_res.sig>>
    /\ pc = "raised" => ~cycle.executed

\* the cycle after a failed submission has begun
C19_Witness ==
    /\ Executing /\ Placed /\ ~cycle.orders[1].accepted
    /\ Cls = "RSIStrategy"
    /\ strategy.last_rsi = <<F(25)>>
    /\ pc = "fetch"
    /\ running

(* C20: a failed data fetch is fatal for its cycle only: no evaluation and *)
(* no order happen in the cycle, and the loop goes on to the next cycle.   *)
C20_FetchFailure ==
    cycle.fetch = "error" =>
        /\ ~cycle.executed
        /\ cycle.orders = <<>>
        /\ LoopGoesOn

(* C21: in both drivers initialize() is called once, at the start (by      *)
(* run() before its loop, by the wrapper's constructor before any next()), *)
(* so the first on_data comes after it, and it is not called again once    *)
(* on_data calls have begun.                                               *)
C21_InitializeOnce ==
    [][/\ pc \in {"new", "backtester"} =>
             call.op = "construct" /\ call'.op = "initialize" /\ fresh'
       /\ (fresh /\ ~fresh') => call.op = "initialize"
       /\ call'.op = "initialize" => call.op \in {"construct", "initialize"}
       /\ call'.op # "construct"]_vars

\* the live loop is in its second cycle, after one on_data call
C21_Witness ==
    /\ pc = "evaluate"
    /\ call.op = "on_data"
    /\ ~fresh
    /\ running

(* C22: a configuration is invalid exactly when the API key is missing,    *)
(* the secret key is missing, or the trading mode is neither 'paper' nor   *)
(* 'live'; with an invalid configuration the live loop never begins: no    *)
(* cycle runs and no order is submitted.                                   *)
C22_InvalidConfig ==
    LET invalid == \/ config.alpaca_api_key = ""
                   \/ config.alpaca_secret_key = ""
                   \/ config.alpaca_trading_mode \notin {"paper", "live"}
    IN  /\ validate(config) <=> ~invalid
        /\ invalid =>
              /\ pc \in {"main", "exit"}
              /\ ~running
              /\ call.op = "construct"
              /\ cycle = NewCycle
              /\ position = start_position

\* both keys set and the mode 'test': the entry point has returned
C22_Witness ==
    /\ pc = "exit"
    /\ config.alpaca_api_key = "key"
    /\ config.alpaca_secret_key = "secret"
    /\ config.alpaca_trading_mode = "test"

(* C23: in the live driver a cycle, once begun, completes: the loop is     *)
(* interrupted only at the sleep between cycles, so when an interrupt has  *)
(* stopped the loop, a cycle that fetched a window has also evaluated it   *)
(* and carried out the order decision.                                     *)
C23_CycleCompletes ==
    (pc = "stopped" /\ cycle.fetch = "ok") => cycle.executed

(* C24: an interrupt stops run() cleanly: running becomes False, nothing   *)
(* propagates, and afterwards no cycle starts and no order is submitted;   *)
(* the loop stops by nothing else than an interrupt or an uncaught         *)
(* failure, and a new cycle begins only after the sleep that follows the   *)
(* previous one.                                                           *)
C24_CleanStop ==
    [][/\ pc # "stopped"
       /\ pc' = "stopped" =>
             /\ ~running'
             /\ position' = position
             /\ cycle' = cycle
             /\ strategy' = strategy
       /\ (running /\ ~running') => pc' = "stopped"
       /\ (pc \in {"fetch", "evaluate", "execute"} /\ pc' \notin {"stopped", "raised"}) =>
             \/ pc = "fetch" /\ pc' \in {"evaluate", "sleep"}
             \/ pc = "evaluate" /\ pc' = "execute"
             \/ pc = "execute" /\ pc' = "sleep"
       /\ pc = "sleep" => pc' \in {"fetch", "stopped"}
       /\ pc = "raised" => pc' = "raised"]_vars

\* stopped by an interrupt after a cycle that bought
C24_Witness ==
    /\ pc = "stopped"
    /\ ~running
    /\ cycle.executed
    /\ cycle.orders # <<>>
    /\ cycle.orders[1].accepted
    /\ position = cycle.held + cycle.orders[1].qty

(* C25: in the backtest adapter, for any signals the wrapped strategy      *)
(* returns, no sell order is larger than the position held, and the        *)
(* simulated position is never negative.                                   *)
C25_SellWithinPosition ==
    /\ position >= 0
    /\ \A i \in 1..Len(broker_orders) :
          broker_orders[i].side = "sell" => broker_orders[i].size <= position

(* C26: in the backtest adapter next() places a buy only when the          *)
(* simulated position is zero and a sell only when it is not; with a       *)
(* strategy that always fires its position_size, and orders filled whole   *)
(* or not at all, the position is always 0 or position_size.               *)
C26_NoPyramiding ==
    [][/\ Len(broker_orders') > Len(broker_orders) =>
             LET o == broker_orders'[Len(broker_orders')]
             IN  /\ o.side = "buy" => position = 0
                 /\ o.side = "sell" => position # 0
       /\ Cls = "RSIStrategy" => position' \in {0, Params.position_size}]_vars

\* a sell is placed while one trade unit is held
C26_Witness ==
    /\ Cls = "RSIStrategy"
    /\ position = Params.position_size
    /\ IsCall
    /\ call.signal.action = "sell"
    /\ Len(broker_orders) = 1
    /\ broker_orders[1].side = "sell"
    /\ broker_orders[1].size = position

(* C27: the window the live driver passes to on_data (the daily bars of    *)
(* the last 30 days, at most 30 bars) covers the minimum lookback of each  *)
(* provided strategy under its default parameters: a window of all 30      *)
(* bars is never answered with "insufficient data".                        *)
C27_WindowCovers ==
    (/\ cycle.fetch = "ok"
     /\ IsCall
     /\ Cls \in Crossovers
     /\ call.data.len = FetchDays) => ~ShortWindow

\* the indicator value(s) of the call equal the stored previous value(s)
Pinned ==
    CASE Cls = "RSIStrategy" -> call.before.last_rsi = <<call.data.rsi.last>>
      [] Cls = "MovingAverageCrossover" ->
            /\ call.before.last_fast_ma = <<call.data.fast_ma.last>>
            /\ call.before.last_slow_ma = <<call.data.slow_ma.last>>
      [] Cls = "MACDCrossover" ->
            /\ call.before.last_macd = <<call.data.macd_res.macd>>
            /\ call.before.last_signal = <<call.data.macd_res.sig>>
      [] OTHER -> FALSE

(* C28: for RSIStrategy, MovingAverageCrossover and MACDCrossover, a valid *)
(* evaluation whose indicator value(s) equal the stored previous value(s)  *)
(* returns hold, also on a threshold; so a run in which every window       *)
(* gives the same indicator outcome (a flat series) returns hold at the    *)
(* first call and at every call after it.                                  *)
C28_PinnedHolds ==
    /\ []((ValidCall /\ Cls \in Crossovers /\ Pinned) => HoldsZero)
    /\ [][(/\ Cls \in Crossovers
           /\ call'.op = "on_data"
           /\ fresh \/ (IsCall /\ call'.data = call.data)) => HoldsZero']_vars

\* RSI 30 after RSI 30, with oversold = 30
C28_Witness ==
    /\ Cls = "RSIStrategy"
    /\ ValidCall
    /\ Pinned
    /\ Params.oversold = 30
    /\ call.data.rsi.last = F(30)
    /\ HoldsZero

(* C29: for RSIStrategy, MovingAverageCrossover and MACDCrossover, a valid *)
(* evaluation never returns the non-hold action that the previous valid    *)
(* evaluation of the instance returned, however many insufficient or       *)
(* unavailable evaluations lie between the two.                            *)
C29_NoRepeat ==
    [][(/\ Cls \in Crossovers
        /\ fired \in {"buy", "sell"}
        /\ ValidCall') => call'.signal.action # fired]_vars

\* a buy fired, and an evaluation without an indicator value came after it
C29_Witness ==
    /\ Cls = "RSIStrategy"
    /\ fired = "buy"
    /\ NoIndicator
    /\ strategy.last_rsi = <<F(25)>>
    /\ Params.oversold = 30

(* C30: when the broker's position lookup fails, get_current_position      *)
(* reports 0 and raises nothing; in that cycle a sell signal submits no    *)
(* order and a buy signal is submitted for its full quantity, whatever the *)
(* position really held.                                                   *)
C30_LookupFailure ==
    (Executing /\ cycle.lookup = "error") =>
        /\ cycle.reads = <<0>>
        /\ pc # "raised"
        /\ call.signal.action = "sell" =>
              cycle.orders = <<>> /\ position = cycle.held
        /\ call.signal.action = "buy" =>
              /\ Len(cycle.orders) = 1
              /\ cycle.orders[1].side = "buy"
              /\ cycle.orders[1].qty = SignalQty

\* a sell while 3 are held is suppressed, because the lookup failed
C30_Witness ==
    /\ Executing
    /\ cycle.lookup = "error"
    /\ cycle.held = 3
    /\ call.signal.action = "sell"
    /\ SignalQty = 10
    /\ cycle.orders = <<>>
    /\ position = 3

====
